---- MODULE Spec2Model ----
(***************************************************************************)
(* Model of the presentation assembler (src/app.py): the slide cloner      *)
(* deep_copy_slide_content, the populator populate_slide, the two AI       *)
(* lookups and the assembly loop of the Streamlit script; and of the       *)
(* document conversion endpoint (src/conversion_service.py).               *)
(*                                                                         *)
(* A slide is a record                                                     *)
(*   [id, shapes, bg, bgPr, rels]                                          *)
(* id     the slide's identity in its deck (the template slide number),    *)
(* shapes the shape tree in document order,                                *)
(* bg     the <p:bg> element of the slide (NoBg when it has none),         *)
(* bgPr   the <p:bgPr> elements appended to the slide element by           *)
(*        copy_slide_background,                                           *)
(* rels   the relationships of the slide part: relationship id -> target   *)
(*        (0 is the slide layout, n > 0 is image n).                       *)
(* A shape is a record [kind, left, top, width, height, ph, paras, rids,   *)
(* img]: kind "pic" (shape_type PICTURE), "text" (has_text_frame) or       *)
(* "other"; ph the placeholder type (0: not a placeholder); paras the      *)
(* paragraphs, each a sequence of runs; rids the relationship ids the      *)
(* shape's XML refers to; img the image a picture embeds (0 when its blob  *)
(* cannot be read).  Lengths are in points.                                *)
(***************************************************************************)
EXTENDS Integers, Sequences, FiniteSets, TLC

VARIABLES
    slide,          \* SpecSlide: the destination slide the operations act on
    stage,          \* SpecSlide: "added", "template" or "built" (see SlideInit)
    last            \* SpecSlide: the last operation and its inputs

slide_vars == <<slide, stage, last>>

VARIABLES
    structure,                  \* st.session_state.structure: the steps, [keyword, action]
    gtm_file_to_process_type,   \* "pptx" or "pdf": the media type of the content deck
    gtm_slides,                 \* the slides (pages) of the content deck
    new_prs,                    \* new_prs.slides: the destination deck
    num_template_slides,        \* len(new_prs.slides) as line 618 reads it (0 before)
    i,                          \* the loop's position in the structure, from 1
    process_log,                \* process_log: one entry per step that ran to its end
    pc,                         \* "trim", "loop", "done", "error" (line 733) or "stopped" (st.stop)
    output_buffer,              \* the deck saved for download, <<>> before that
    results,                    \* per step started: what the lookups returned
    prev                        \* new_prs as the last step found it

assembly_vars == <<structure, gtm_file_to_process_type, gtm_slides, new_prs,
                   num_template_slides, i,
                   process_log, pc, output_buffer, results, prev>>

VARIABLES
    request,    \* SpecConvert: the upload posted to /convert_document
    response    \* SpecConvert: the endpoint's answer, NoResponse before the call

conv_vars == <<request, response>>

vars == <<slide_vars, assembly_vars, conv_vars>>

\* ---------------------------------------------------------------- bounds
MaxShapes == 2
MaxSteps == 2
MaxTemplateSlides == 3
MaxGtmSlides == 2
MaxPages == 3

\* --------------------------------------------------- program constants
TopBand == 150
MinEmptyHeight == 100
TextLimit == 2000

\* ------------------------------------------------------------ helpers
Min(a, b) == IF a < b THEN a ELSE b

Range(s) == {s[k] : k \in 1..Len(s)}

RECURSIVE SeqsUpTo(_, _)
SeqsUpTo(S, n) ==
    IF n = 0 THEN {<<>>}
    ELSE LET shorter == SeqsUpTo(S, n - 1)
         IN  shorter \cup {Append(s, x) : s \in {t \in shorter : Len(t) = n - 1}, x \in S}

\* ------------------------------------------------------------- text
\* font of a run python-pptx creates with add_run(): nothing set
NewRun(t) ==
    [text |-> t, name |-> "", size |-> 0, bold |-> FALSE, italic |-> FALSE,
     underline |-> FALSE, color |-> "none"]

EmptyPara == <<>>

\* text_frame.clear(): every paragraph but the first is removed and the first
\* one is emptied, so one empty paragraph remains
ClearedTextFrame == <<EmptyPara>>

\* the run texts of a shape, all paragraphs
RunTexts(sh) == UNION {{sh.paras[p][r].text : r \in 1..Len(sh.paras[p])} : p \in 1..Len(sh.paras)}

LoremTexts == {"Lorem ipsum dolor", "lorem ipsum intro"}
BlankTexts == {"", " "}

\* "lorem ipsum" in shape.text.lower()
HasLoremIpsum(sh) == RunTexts(sh) \cap LoremTexts # {}

\* not shape.text.strip()
IsBlank(sh) == RunTexts(sh) \subseteq BlankTexts

\* ------------------------------------------------------ relationships
LayoutRel == (1 :> 0)

\* python-pptx's next free relationship id: the least rIdN not in use
NextRId(rels) == CHOOSE n \in 1..(Cardinality(DOMAIN rels) + 1) :
                    /\ n \notin DOMAIN rels
                    /\ \A m \in 1..(n - 1) : m \in DOMAIN rels

\* part.relate_to(image part): the relationship to that target when there is
\* one already, a new one otherwise
RelIdFor(rels, img) ==
    IF \E r \in DOMAIN rels : rels[r] = img
    THEN CHOOSE r \in DOMAIN rels : rels[r] = img /\ \A q \in DOMAIN rels : rels[q] = img => r <= q
    ELSE NextRId(rels)

RelateTo(rels, img) ==
    LET r == RelIdFor(rels, img) IN [q \in DOMAIN rels \cup {r} |-> IF q = r THEN img ELSE rels[q]]

\* --------------------------------------------------------- backgrounds
NoBg == [fill |-> "none", rid |-> 0, img |-> 0]

\* ------------------------------------------------- deep_copy_slide_content
\* one run of a text shape: text, bold, italic and underline are assigned, the
\* size when the source has one, the colour when the source fill is solid and
\* its colour is an RGB colour (a theme colour raises, which is caught after
\* fill.solid() has run); the font name is not assigned
CopyRun(run) ==
    [text |-> run.text,
     name |-> "",
     size |-> IF run.size # 0 THEN run.size ELSE 0,
     bold |-> run.bold,
     italic |-> run.italic,
     underline |-> run.underline,
     color |-> IF run.color = "none" THEN "none"
               ELSE IF run.color = "theme" THEN "solid" ELSE run.color]

CopyParagraph(para) == [r \in 1..Len(para) |-> CopyRun(para[r])]

\* add_textbox, text_frame.clear(), then one add_paragraph per source paragraph
CopyTextShape(dest, sh) ==
    LET new_shape == [kind |-> "text", left |-> sh.left, top |-> sh.top,
                      width |-> sh.width, height |-> sh.height, ph |-> 0,
                      paras |-> ClearedTextFrame \o
                                [p \in 1..Len(sh.paras) |-> CopyParagraph(sh.paras[p])],
                      rids |-> {}, img |-> 0]
    IN  [dest EXCEPT !.shapes = Append(@, new_shape)]

\* copy.deepcopy(shape.element) inserted at the end of the shape tree
CopyVerbatim(dest, sh) == [dest EXCEPT !.shapes = Append(@, sh)]

\* shapes.add_picture(blob, left, top, width, height); when the blob cannot be
\* read the exception is caught and only a placeholder is copied, verbatim
CopyPicture(dest, sh) ==
    IF sh.img # 0
    THEN LET rels == RelateTo(dest.rels, sh.img)
             new_pic == [kind |-> "pic", left |-> sh.left, top |-> sh.top,
                         width |-> sh.width, height |-> sh.height, ph |-> 0,
                         paras |-> <<>>, rids |-> {RelIdFor(dest.rels, sh.img)},
                         img |-> sh.img]
         IN  [dest EXCEPT !.rels = rels, !.shapes = Append(@, new_pic)]
    ELSE IF sh.ph # 0 THEN CopyVerbatim(dest, sh) ELSE dest

CopyShape(dest, sh) ==
    IF sh.kind = "pic" THEN CopyPicture(dest, sh)
    ELSE IF sh.kind = "text" THEN CopyTextShape(dest, sh)
    ELSE CopyVerbatim(dest, sh)

\* a loop that gives up at the first picture it cannot read
RECURSIVE CopyShapesUntilFailure(_, _, _)
CopyShapesUntilFailure(dest, shapes, k) ==
    IF k > Len(shapes) THEN dest
    ELSE IF shapes[k].kind = "pic" /\ shapes[k].img = 0 THEN dest
    ELSE CopyShapesUntilFailure(CopyShape(dest, shapes[k]), shapes, k + 1)

\* the loop over src_slide.shapes, from shape k on
RECURSIVE CopyShapesFrom(_, _, _)
CopyShapesFrom(dest, shapes, k) ==
    IF k > Len(shapes) THEN dest
    ELSE CopyShapesFrom(CopyShape(dest, shapes[k]), shapes, k + 1)

CopyShapes(dest, shapes) == CopyShapesFrom(dest, shapes, 1)

\* copy_solid_or_gradient_background: the source <p:bgPr> is copied as it is,
\* the destination's <p:bg> is removed and the copy appended to the slide
CopySolidOrGradientBackground(dest, src) ==
    IF src.bg.fill = "none" THEN dest
    ELSE [dest EXCEPT !.bg = NoBg, !.bgPr = Append(@, src.bg)]

\* copy_slide_background: a picture fill gets a new image relationship in the
\* destination; when the source image cannot be read, the fill is copied as it is
CopySlideBackground(dest, src) ==
    IF src.bg.fill = "none" THEN dest
    ELSE IF src.bg.fill = "picture"
    THEN IF src.bg.rid = 0 THEN dest
         ELSE IF src.bg.img # 0
         THEN [dest EXCEPT !.rels = RelateTo(dest.rels, src.bg.img),
                           !.bg = NoBg,
                           !.bgPr = Append(@, [src.bg EXCEPT !.rid = RelIdFor(dest.rels, src.bg.img)])]
         ELSE CopySolidOrGradientBackground(dest, src)
    ELSE CopySolidOrGradientBackground(dest, src)

\* a copy that does not first remove the destination's shapes
DeepCopyKeepingShapes(dest, src) ==
    CopySlideBackground(CopyShapes(dest, src.shapes), src)

\* lines 192-194 remove every shape of the destination slide; lines 196-250 copy
\* the source's shapes; line 252 copies the background
DeepCopySlideContent(dest, src) ==
    CopySlideBackground(CopyShapes([dest EXCEPT !.shapes = <<>>], src.shapes), src)

\* ------------------------------------------------------- populate_slide
\* content.get(key, "")
Get(content, key) == IF key \in DOMAIN content THEN content[key] ELSE ""

\* tf.clear(); p = tf.add_paragraph(); run = p.add_run(); run.text = text
WriteText(sh, text) == [sh EXCEPT !.paras = Append(ClearedTextFrame, <<NewRun(text)>>)]

TitlePlaceholderTypes == {1, 2, 8}
BodyPlaceholderTypes == {3, 4, 8, 14}

IsTitlePlaceholder(sh) == sh.ph # 0 /\ sh.ph \in TitlePlaceholderTypes
IsTopTextBox(sh) == sh.top < TopBand
IsBodyPlaceholder(sh) == sh.ph # 0 /\ sh.ph \in BodyPlaceholderTypes
IsEmptyTextBox(sh) == IsBlank(sh) /\ sh.height > MinEmptyHeight

\* the title test of one shape
TitleMatch(sh) == IsTitlePlaceholder(sh) \/ IsTopTextBox(sh)

\* the body test of one shape, evaluated on the shape as the title branch left it
BodyMatch(sh) == IsBodyPlaceholder(sh) \/ HasLoremIpsum(sh) \/ IsEmptyTextBox(sh)

\* one iteration of the loop on shape k; st carries the shapes, the two flags
\* and, for the record, the shapes that received the title and the body
PopulateShape(st, k, content) ==
    LET sh == st.shapes[k]
        takeTitle == ~st.title_populated /\ TitleMatch(sh)
        sh1 == IF takeTitle THEN WriteText(sh, Get(content, "title")) ELSE sh
        takeBody == ~st.body_populated /\ BodyMatch(sh1)
        sh2 == IF takeBody THEN WriteText(sh1, Get(content, "body")) ELSE sh1
    IN  IF sh.kind # "text" THEN st
        ELSE [shapes |-> [st.shapes EXCEPT ![k] = sh2],
              title_populated |-> st.title_populated \/ takeTitle,
              body_populated |-> st.body_populated \/ takeBody,
              title_shape |-> IF takeTitle THEN k ELSE st.title_shape,
              body_shape |-> IF takeBody THEN k ELSE st.body_shape]

RECURSIVE PopulateFrom(_, _, _)
PopulateFrom(st, k, content) ==
    IF k > Len(st.shapes) \/ (st.title_populated /\ st.body_populated) THEN st
    ELSE PopulateFrom(PopulateShape(st, k, content), k + 1, content)

\* the whole loop: the final shapes and the shapes chosen for the two roles
\* (0: the role found no shape)
PopulateRoles(sl, content) ==
    PopulateFrom([shapes |-> sl.shapes, title_populated |-> FALSE,
                  body_populated |-> FALSE, title_shape |-> 0, body_shape |-> 0],
                 1, content)

PopulateSlide(sl, content) == [sl EXCEPT !.shapes = PopulateRoles(sl, content).shapes]

\* ------------------------------------------------------------ inputs
Shape(kind, top, height, ph, paras, rids, img) ==
    [kind |-> kind, left |-> 40, top |-> top, width |-> 600, height |-> height,
     ph |-> ph, paras |-> paras, rids |-> rids, img |-> img]

Run(t, name, size, bold, color) ==
    [text |-> t, name |-> name, size |-> size, bold |-> bold, italic |-> FALSE,
     underline |-> bold, color |-> color]

\* shapes of the content (GTM) deck
PicOk == Shape("pic", 200, 120, 0, <<>>, {2}, 1)
PicUnreadable == Shape("pic", 200, 80, 0, <<>>, {3}, 0)
PicPlaceholderUnreadable == Shape("pic", 200, 120, 18, <<>>, {3}, 0)
TextTwoParas ==
    Shape("text", 50, 80, 0,
          <<<<Run("Objectives", "Arial", 24, TRUE, "FF0000")>>,
            <<Run("Grow", "", 0, FALSE, "none"), Run("Lorem ipsum dolor", "Calibri", 12, FALSE, "theme")>>>>,
          {}, 0)
GroupWithPicture == Shape("other", 200, 120, 0, <<>>, {5}, 0)
Connector == Shape("other", 50, 80, 0, <<>>, {}, 0)

SourceShapes == {PicOk, PicUnreadable, PicPlaceholderUnreadable, TextTwoParas,
                 GroupWithPicture, Connector}

SolidBg == [fill |-> "solid", rid |-> 0, img |-> 0]
PictureBg == [fill |-> "picture", rid |-> 4, img |-> 2]
PictureBgUnreadable == [fill |-> "picture", rid |-> 4, img |-> 0]
PictureBgNoEmbed == [fill |-> "picture", rid |-> 0, img |-> 0]

SourceBackgrounds == {NoBg, SolidBg, PictureBg, PictureBgUnreadable, PictureBgNoEmbed}

\* the relationships a source slide holds for what its content refers to
SourceRels == (1 :> 0) @@ (2 :> 1) @@ (3 :> 3) @@ (4 :> 2) @@ (5 :> 4)

SourceSlides ==
    {[id |-> 0, shapes |-> shapes, bg |-> bg, bgPr |-> <<>>, rels |-> SourceRels] :
        shapes \in SeqsUpTo(SourceShapes, MaxShapes), bg \in SourceBackgrounds}

\* shapes of the template deck
TitlePlaceholder == Shape("text", 50, 80, 1, <<<<NewRun("Click to add title")>>>>, {}, 0)
TitlePlaceholderLow == Shape("text", 200, 80, 1, <<<<NewRun("Click to add title")>>>>, {}, 0)
BodyPlaceholderTop == Shape("text", 50, 120, 3, <<<<NewRun("Click to add text")>>>>, {}, 0)
BodyPlaceholderLow == Shape("text", 200, 120, 4, <<<<NewRun("Lorem ipsum dolor")>>>>, {}, 0)
ChartPlaceholder == Shape("text", 200, 120, 8, <<EmptyPara>>, {}, 0)
TextBoxTop == Shape("text", 50, 80, 0, <<<<NewRun("Agenda")>>>>, {}, 0)
TextBoxLowEmpty == Shape("text", 200, 120, 0, <<<<NewRun(" ")>>>>, {}, 0)
TextBoxLowPlain == Shape("text", 200, 80, 0, <<<<NewRun("Notes")>>, <<NewRun("More")>>>>, {}, 0)
Logo == Shape("pic", 50, 80, 0, <<>>, {2}, 1)

TemplateShapes == {TitlePlaceholder, TitlePlaceholderLow, BodyPlaceholderTop,
                   BodyPlaceholderLow, ChartPlaceholder, TextBoxTop, TextBoxLowEmpty,
                   TextBoxLowPlain, Logo}

TemplateRels == (1 :> 0) @@ (2 :> 1)

TemplateSlides ==
    {[id |-> 0, shapes |-> shapes, bg |-> bg, bgPr |-> <<>>, rels |-> TemplateRels] :
        shapes \in SeqsUpTo(TemplateShapes, MaxShapes), bg \in {NoBg, SolidBg}}

\* new_prs.slides.add_slide(new_prs.slide_layouts[0]): the layout's placeholders
\* and the relationship to the layout
AddedSlide ==
    [id |-> 0, shapes |-> <<TitlePlaceholder, BodyPlaceholderLow>>, bg |-> NoBg,
     bgPr |-> <<>>, rels |-> LayoutRel]

Contents ==
    {[title |-> "Plan", body |-> "Steps"],
     [title |-> "", body |-> "Steps"],
     [title |-> "lorem ipsum intro", body |-> "Steps"],
     [body |-> "Steps"],
     [title |-> "Plan"]}

\* ------------------------------------------------------- the two lookups
\* get_all_slide_data: the conversion service's records of a deck, one per
\* slide; text is the slide's first line and the lines after it
SlideData(k) == [slide_index |-> k - 1, first |-> "Timeline", rest |-> "Phase one", image_data |-> "png"]

GetAllSlideData(deck) == [k \in 1..Len(deck) |-> SlideData(k)]

NoResult(justification) == [status |-> "returned", slide |-> 0, index |-> -1, justification |-> justification]

\* a Python list index on a list of n items, as a position from 1 (0: IndexError)
PyIndex(v, n) == IF v >= 0 THEN (IF v < n THEN v + 1 ELSE 0) ELSE (IF n + v >= 0 THEN n + v + 1 ELSE 0)

\* find_slide_by_ai.  conv is what the conversion service does: "ok"; "failed",
\* a RequestException or a response without 'slides', on which
\* get_all_slide_data calls st.stop(); "bad_record", a slide record without
\* 'text' or 'image_data', which raises KeyError where the user message is
\* built, before the try block.  ai is the model's answer: [kind, index]
\* with kind "api_error", "bad_json", "no_index" (valid JSON without
\* best_match_index) or "index".  slide is the position of the selected record
\* in slides_data (0: None).
FindSlideByAi(api_key, deck, keyword, conv, ai) ==
    IF keyword = "" THEN NoResult("No keyword provided.")
    ELSE IF ~api_key THEN NoResult("OpenAI API Key is missing.")
    ELSE IF conv = "failed" THEN [NoResult("") EXCEPT !.status = "stopped"]
    ELSE IF conv = "bad_record" THEN [NoResult("KeyError") EXCEPT !.status = "raised"]
    ELSE IF ai.kind = "api_error" THEN NoResult("OpenAI API Error")
    ELSE IF ai.kind = "bad_json" THEN NoResult("AI response was not valid JSON")
    ELSE LET slides_data == GetAllSlideData(deck)
             best_index == IF ai.kind = "no_index" THEN -1 ELSE ai.index
         IN  IF best_index # -1 /\ best_index < Len(slides_data)
             THEN IF PyIndex(best_index, Len(slides_data)) = 0
                  THEN NoResult("An unexpected error occurred during AI analysis")
                  ELSE [status |-> "returned", slide |-> PyIndex(best_index, Len(slides_data)),
                        index |-> best_index, justification |-> "justification"]
             ELSE [status |-> "returned", slide |-> 0, index |-> best_index,
                   justification |-> "justification"]

\* lines 659-664 and 687-692: title and body from the selected record's text
RawGtmContent(result) ==
    IF result.slide # 0
    THEN [title |-> SlideData(result.slide).first, body |-> SlideData(result.slide).rest]
    ELSE [title |-> "", body |-> ""]

MappingFailed(justification, content) ==
    [raised |-> FALSE, best_template_index |-> -1, justification |-> justification,
     processed_content |-> content]

\* analyze_and_map_content.  The user message is built from
\* gtm_slide_content_data['image_data'] before the try block is entered: a
\* record without that key raises KeyError out of the function.  map is the
\* model's answer: [kind, index, content] with kind "api_error", "bad_json",
\* "missing_keys" or "ok".
AnalyzeAndMapContent(api_key, gtm_slide_content_data, map) ==
    IF ~api_key THEN MappingFailed("OpenAI API Key is missing.", gtm_slide_content_data)
    ELSE IF "image_data" \notin DOMAIN gtm_slide_content_data
    THEN [MappingFailed("KeyError: 'image_data'", gtm_slide_content_data) EXCEPT !.raised = TRUE]
    ELSE IF map.kind = "api_error" THEN MappingFailed("OpenAI API Error", gtm_slide_content_data)
    ELSE IF map.kind = "bad_json"
    THEN MappingFailed("AI response was not valid JSON", gtm_slide_content_data)
    ELSE IF map.kind = "missing_keys"
    THEN MappingFailed("An error occurred during content mapping", gtm_slide_content_data)
    ELSE [raised |-> FALSE, best_template_index |-> map.index, justification |-> "justification",
          processed_content |->
              [title |-> IF "title" \in DOMAIN map.content THEN map.content.title
                         ELSE Get(gtm_slide_content_data, "title"),
               body |-> IF "body" \in DOMAIN map.content THEN map.content.body
                        ELSE Get(gtm_slide_content_data, "body")]]

ConversionOutcomes == {"ok", "failed", "bad_record"}

AiOutcomes(n) ==
    {[kind |-> k, index |-> -1] : k \in {"api_error", "bad_json", "no_index"}}
        \cup {[kind |-> "index", index |-> v] : v \in (-2)..n}

MapOutcomes(n) ==
    {[kind |-> k, index |-> -1, content |-> [title |-> "Plan", body |-> "Steps"]] :
        k \in {"api_error", "bad_json", "missing_keys"}}
        \cup {[kind |-> "ok", index |-> v, content |-> c] :
                v \in (-1)..n, c \in {[title |-> "Plan", body |-> "Steps"], [body |-> "Steps"]}}

\* ------------------------------------------------- SpecSlide: one slide
\* What the program does to one destination slide: a slide added for a further
\* template deck receives a template slide (line 607); a slide of the merged
\* template then receives at most one step, which copies a content slide into
\* it (line 649) or populates it (lines 678, 706).
NoSlide == [id |-> 0, shapes |-> <<>>, bg |-> NoBg, bgPr |-> <<>>, rels |-> <<>>]

NoOp ==
    [op |-> "none", src |-> NoSlide, content |-> [title |-> "", body |-> ""], pre |-> NoSlide,
     log |-> <<>>]

\* lines 679 and 707: what the caller appends to the step's log after
\* populate_slide has returned
MergedLine ==
    [line |-> "Action: Merged processed content from GTM into Template slide", detail |-> ""]

\* the assembly's variables while a single slide is looked at
NoAssembly ==
    /\ structure = <<>>
    /\ gtm_file_to_process_type = "pptx"
    /\ gtm_slides = <<>>
    /\ new_prs = <<>>
    /\ num_template_slides = 0
    /\ i = 0
    /\ process_log = <<>>
    /\ pc = "idle"
    /\ output_buffer = <<>>
    /\ results = <<>>
    /\ prev = <<>>

\* no upload is being converted
NoRequest == [content_type |-> "", pages |-> <<>>, files |-> {}, tool |-> "ok"]
NoResponse == [status_code |-> 0, slides |-> <<>>, detail |-> ""]
NoConversion == request = NoRequest /\ response = NoResponse

SlideInit ==
    /\ \/ slide = AddedSlide /\ stage = "added"
       \/ slide \in TemplateSlides /\ stage = "template"
    /\ last = NoOp
    /\ NoAssembly
    /\ NoConversion

MergeTemplateSlide(src) ==
    /\ stage = "added"
    /\ slide' = DeepCopySlideContent(slide, src)
    /\ stage' = "template"
    /\ last' = [op |-> "clone", src |-> src, content |-> NoOp.content, pre |-> NoSlide,
                log |-> <<>>]
    /\ UNCHANGED <<assembly_vars, conv_vars>>

CopyFromGtm(src) ==
    /\ stage = "template"
    /\ slide' = DeepCopySlideContent(slide, src)
    /\ stage' = "built"
    /\ last' = [op |-> "clone", src |-> src, content |-> NoOp.content, pre |-> NoSlide,
                log |-> <<>>]
    /\ UNCHANGED <<assembly_vars, conv_vars>>

Populate(content) ==
    /\ stage = "template"
    /\ slide' = PopulateSlide(slide, content)
    /\ stage' = "built"
    /\ last' = [op |-> "populate", src |-> NoSlide, content |-> content, pre |-> slide,
                log |-> <<MergedLine>>]
    /\ UNCHANGED <<assembly_vars, conv_vars>>

SlideNext ==
    \/ \E src \in SourceSlides : MergeTemplateSlide(src)
    \/ \E src \in SourceSlides : CopyFromGtm(src)
    \/ \E content \in Contents : Populate(content)

SpecSlide == SlideInit /\ [][SlideNext]_vars

\* ------------------------------------------------------ Spec: the assembly
\* The state when the build phase is entered (line 615): the merged template
\* is loaded into new_prs, the content deck is chosen, the log is empty.
CopyAction == "Copy from GTM (as is)"
MergeAction == "Merge: Template Layout + GTM Content"

Steps == {[keyword |-> k, action |-> a] : k \in {"", "Timeline"}, a \in {CopyAction, MergeAction}}

TemplateLayouts ==
    <<<<TitlePlaceholder, BodyPlaceholderLow>>, <<TextBoxTop, Logo>>, <<ChartPlaceholder>>>>

\* slide k of the merged template
TemplateDeckSlide(k) ==
    [id |-> k, shapes |-> TemplateLayouts[((k - 1) % Len(TemplateLayouts)) + 1],
     bg |-> IF k % 2 = 0 THEN SolidBg ELSE NoBg, bgPr |-> <<>>, rels |-> TemplateRels]

GtmContents ==
    <<<<TextTwoParas, PicOk>>, <<PicUnreadable, GroupWithPicture>>, <<Connector>>>>

\* slide k of the content deck
GtmDeckSlide(k) ==
    [id |-> k, shapes |-> GtmContents[((k - 1) % Len(GtmContents)) + 1],
     bg |-> IF k % 2 = 0 THEN PictureBg ELSE SolidBg, bgPr |-> <<>>, rels |-> SourceRels]

Init ==
    /\ structure \in SeqsUpTo(Steps, MaxSteps) \ {<<>>}
    /\ gtm_file_to_process_type \in {"pptx", "pdf"}
    /\ \E n \in 0..MaxGtmSlides : gtm_slides = [k \in 1..n |-> GtmDeckSlide(k)]
    /\ \E n \in 0..MaxTemplateSlides : new_prs = [k \in 1..n |-> TemplateDeckSlide(k)]
    /\ num_template_slides = 0
    /\ i = 0
    /\ process_log = <<>>
    /\ pc = "trim"
    /\ output_buffer = <<>>
    /\ results = <<>>
    /\ prev = new_prs
    /\ slide = NoSlide
    /\ stage = "idle"
    /\ last = NoOp
    /\ NoConversion

\* a loop that stops one slide early: range(n - 1, num_structure_steps, -1)
TrimmedSlidesOffByOne(slides, num_structure_steps) ==
    IF num_structure_steps < Len(slides) THEN SubSeq(slides, 1, num_structure_steps + 1)
    ELSE slides

\* lines 621-625: the slides at positions num_structure_steps and after (from
\* 0) are removed, the last one first
TrimmedSlides(slides, num_structure_steps) ==
    IF num_structure_steps < Len(slides) THEN SubSeq(slides, 1, num_structure_steps)
    ELSE slides

\* lines 618-628: the slides past the number of steps are removed
TrimUnusedSlides ==
    /\ pc = "trim"
    /\ num_template_slides' = Len(new_prs)
    /\ new_prs' = TrimmedSlides(new_prs, Len(structure))
    /\ prev' = new_prs'
    /\ i' = 1
    /\ pc' = "loop"
    /\ UNCHANGED <<structure, gtm_file_to_process_type, gtm_slides, process_log,
                   output_buffer, results, slide_vars, conv_vars>>

\* line 630-632: the loop body runs for step i
InLoop == pc = "loop" /\ i <= Len(structure) /\ i <= Len(new_prs)

\* an entry numbered from 0
LogEntryFromZero(lines) ==
    [step |-> i - 1, keyword |-> structure[i].keyword, action |-> structure[i].action, log |-> lines]

\* line 640: the entry of step i (the code counts from 0 and logs i + 1)
LogEntry(lines) ==
    [step |-> i, keyword |-> structure[i].keyword, action |-> structure[i].action, log |-> lines]

\* a step that advances the loop index by two
StepDoneSkipping(slides, lines, result) ==
    /\ new_prs' = slides
    /\ process_log' = Append(process_log, LogEntry(lines))
    /\ results' = Append(results, result)
    /\ prev' = new_prs
    /\ i' = i + 2
    /\ pc' = pc
    /\ UNCHANGED <<structure, gtm_file_to_process_type, gtm_slides, num_template_slides,
                   output_buffer, slide_vars, conv_vars>>

\* the step ran to line 711
StepDone(slides, lines, result) ==
    /\ new_prs' = slides
    /\ process_log' = Append(process_log, LogEntry(lines))
    /\ results' = Append(results, result)
    /\ prev' = new_prs
    /\ i' = i + 1
    /\ pc' = pc
    /\ UNCHANGED <<structure, gtm_file_to_process_type, gtm_slides, num_template_slides,
                   output_buffer, slide_vars, conv_vars>>

\* a handler that saves the deck as it stands when the step fails
StepAbortedButSaved(how, result) ==
    /\ pc' = "done"
    /\ output_buffer' = new_prs
    /\ results' = Append(results, result)
    /\ prev' = new_prs
    /\ UNCHANGED <<structure, gtm_file_to_process_type, gtm_slides, new_prs,
                   num_template_slides, i, process_log, slide_vars, conv_vars>>

\* the script left the loop: st.stop() ("stopped") or an exception caught at
\* line 733 ("error"); the step's log entry is not appended
StepAborted(how, result) ==
    /\ pc' = how
    /\ results' = Append(results, result)
    /\ prev' = new_prs
    /\ UNCHANGED <<structure, gtm_file_to_process_type, gtm_slides, new_prs,
                   num_template_slides, i, process_log, output_buffer, slide_vars, conv_vars>>

Line(line, detail) == [line |-> line, detail |-> detail]

\* what a step's lookups were given and returned: find, the result of
\* find_slide_by_ai; map, the result of analyze_and_map_content; conv, the
\* conversion service's answer when it was called; ai, the model's answer to
\* the content query when the call was reached; asked, the model's answer to
\* the template query of a step that got as far as analyze_and_map_content
NotMapped == MappingFailed("", [title |-> "", body |-> ""])
NoAnswer == [kind |-> "none", index |-> -1, content |-> [title |-> "", body |-> ""]]
NoAi == [kind |-> "none", index |-> -1]
Found(result, mapping, conv, ai, map) ==
    LET called == structure[i].keyword # ""
    IN  [find |-> result, map |-> mapping,
         conv |-> IF called THEN conv ELSE "none",
         ai |-> IF called /\ conv = "ok" THEN ai ELSE NoAi,
         asked |-> IF result.status = "returned" THEN map ELSE NoAnswer]

\* lines 643-652: "Copy from GTM (as is)" with a PPTX content deck
StepCopyPptx(conv, ai) ==
    /\ InLoop
    /\ structure[i].action = CopyAction
    /\ gtm_file_to_process_type = "pptx"
    /\ LET result == FindSlideByAi(TRUE, gtm_slides, structure[i].keyword, conv, ai)
           found == Found(result, NotMapped, conv, ai, NoAnswer)
           justified == <<Line("GTM Content Choice Justification (PPTX Copy)", result.justification)>>
       IN  IF result.status = "stopped" THEN StepAborted("stopped", found)
           ELSE IF result.status = "raised" THEN StepAborted("error", found)
           ELSE IF result.slide # 0
           THEN LET src_slide_object == gtm_slides[PyIndex(result.index, Len(gtm_slides))]
                IN  StepDone([new_prs EXCEPT ![i] = DeepCopySlideContent(@, src_slide_object)],
                             Append(justified, Line("Action: Replaced Template slide with content from GTM PPTX slide", "")),
                             found)
           ELSE StepDone(new_prs,
                         Append(justified, Line("Action: No suitable slide found in GTM PPTX deck. Template slide was left as is.", "")),
                         found)

\* lines 656-681 and 684-709: the content lookup, the template mapping and the
\* population of the slide at the step's position
MergeLogic(conv, ai, map, first_lines) ==
    LET result == FindSlideByAi(TRUE, gtm_slides, structure[i].keyword, conv, ai)
        raw_gtm_content == RawGtmContent(result)
        ai_mapping_result == AnalyzeAndMapContent(TRUE, raw_gtm_content, map)
        found == Found(result, ai_mapping_result, conv, ai, map)
        selected_template_index == ai_mapping_result.best_template_index
        justified == first_lines
                       \o <<Line("GTM Content Source Justification", result.justification),
                            Line("AI Template Mapping Justification", ai_mapping_result.justification)>>
    IN  IF result.status = "stopped" THEN StepAborted("stopped", [found EXCEPT !.map = NotMapped])
        ELSE IF result.status = "raised" THEN StepAborted("error", [found EXCEPT !.map = NotMapped])
        ELSE IF ai_mapping_result.raised THEN StepAborted("error", found)
        ELSE IF selected_template_index # -1 /\ selected_template_index < Len(new_prs)
        THEN StepDone([new_prs EXCEPT ![i] = PopulateSlide(@, ai_mapping_result.processed_content)],
                      Append(justified, Line("Action: Merged processed content from GTM into Template slide", "")),
                      found)
        ELSE StepDone(new_prs,
                      Append(justified, Line("Action: AI could not determine a suitable template layout or process content. Template slide was left as is.", "")),
                      found)

\* a PDF branch that looks the content up and leaves the slide as it is
StepCopyPdfContentOnly(conv, ai, map) ==
    /\ InLoop
    /\ structure[i].action = CopyAction
    /\ gtm_file_to_process_type # "pptx"
    /\ LET result == FindSlideByAi(TRUE, gtm_slides, structure[i].keyword, conv, ai)
           found == Found(result, NotMapped, conv, ai, NoAnswer)
       IN  IF result.status = "stopped" THEN StepAborted("stopped", found)
           ELSE IF result.status = "raised" THEN StepAborted("error", found)
           ELSE StepDone(new_prs,
                         <<Line("Warning: 'Copy from GTM (as is)' is selected but GTM deck is a PDF.", ""),
                           Line("GTM Content Source Justification", result.justification)>>,
                         found)

\* lines 653-681: "Copy from GTM (as is)" with a PDF content deck
StepCopyPdf(conv, ai, map) ==
    /\ InLoop
    /\ structure[i].action = CopyAction
    /\ gtm_file_to_process_type # "pptx"
    /\ MergeLogic(conv, ai, map, <<Line("Warning: 'Copy from GTM (as is)' is selected but GTM deck is a PDF.", "")>>)

\* lines 683-709: "Merge: Template Layout + GTM Content"
StepMerge(conv, ai, map) ==
    /\ InLoop
    /\ structure[i].action = MergeAction
    /\ MergeLogic(conv, ai, map, <<>>)

\* lines 713-732: the loop is over, the log is shown, the deck is saved and
\* offered for download
Finalize ==
    /\ pc = "loop"
    /\ ~InLoop
    /\ output_buffer' = new_prs
    /\ pc' = "done"
    /\ UNCHANGED <<structure, gtm_file_to_process_type, gtm_slides, new_prs,
                   num_template_slides, i, process_log, results, prev, slide_vars, conv_vars>>

Next ==
    \/ TrimUnusedSlides
    \/ \E conv \in ConversionOutcomes, ai \in AiOutcomes(Len(gtm_slides)) : StepCopyPptx(conv, ai)
    \/ \E conv \in ConversionOutcomes, ai \in AiOutcomes(Len(gtm_slides)),
          map \in MapOutcomes(Len(new_prs)) : StepCopyPdf(conv, ai, map)
    \/ \E conv \in ConversionOutcomes, ai \in AiOutcomes(Len(gtm_slides)),
          map \in MapOutcomes(Len(new_prs)) : StepMerge(conv, ai, map)
    \/ Finalize

Spec == Init /\ [][Next]_vars

\* ------------------------------------------- SpecConvert: the conversion
\* The endpoint POST /convert_document.  An upload is a record
\*   [content_type, pages, files, tool]
\* pages  the slides or pages of the document in document order, each the
\*        length of its text (the joined shape texts, or page.get_text()),
\* files  the PNG files unoconv left in output_dir: <<k, "plain">> is
\*        slide-k.png, <<k, "padded">> is slide-0k.png,
\* tool   how the rendering and parsing went: "ok", "exit_nonzero" (unoconv
\*        returned a non-zero code), "not_found" (unoconv is not installed),
\*        "unreadable" (python-pptx or PyMuPDF cannot open the bytes).
PptxContentType == "application/vnd.openxmlformats-officedocument.presentationml.presentation"
PdfContentType == "application/pdf"

\* text[:2000], on lengths
Truncated(text) == Min(text, TextLimit)

\* base64.b64encode(...).decode('utf-8'); "" is <<>>
Base64(bytes) == <<"base64", bytes>>

\* a record numbered from 1
SlideRecordFromOne(index, text, image_data) ==
    [slide_index |-> index + 1, text |-> text, image_data |-> image_data]

SlideRecord(index, text, image_data) ==
    [slide_index |-> index, text |-> text, image_data |-> image_data]

HttpException(status_code, detail) ==
    [status_code |-> status_code, slides |-> <<>>, detail |-> detail]

JsonResponse(slides_data) == [status_code |-> 200, slides |-> slides_data, detail |-> ""]

\* lines 58-71: the image of slide k (from 1), <<>> when neither file exists
SlideImageData(files, k) ==
    IF <<k, "plain">> \in files THEN Base64(<<k, "plain">>)
    ELSE IF <<k, "padded">> \in files THEN Base64(<<k, "padded">>)
    ELSE <<>>

ConvertPptxToImagesAndText(upload) ==
    IF upload.tool = "exit_nonzero"
    THEN HttpException(500, "PPTX conversion failed. unoconv exited with code")
    ELSE IF upload.tool = "not_found"
    THEN HttpException(500, "unoconv or LibreOffice not found.")
    ELSE IF upload.tool = "unreadable"
    THEN HttpException(500, "An unexpected error occurred during PPTX processing")
    ELSE JsonResponse([k \in 1..Len(upload.pages) |->
            SlideRecord(k - 1, Truncated(upload.pages[k]), SlideImageData(upload.files, k))])

ConvertPdfToImagesAndText(upload) ==
    IF upload.tool # "ok"
    THEN HttpException(500, "PDF conversion failed")
    ELSE JsonResponse([k \in 1..Len(upload.pages) |->
            SlideRecord(k - 1, Truncated(upload.pages[k]), Base64(<<k, "pixmap">>))])

ConvertDocument(upload) ==
    IF upload.content_type = PptxContentType THEN ConvertPptxToImagesAndText(upload)
    ELSE IF upload.content_type = PdfContentType THEN ConvertPdfToImagesAndText(upload)
    ELSE HttpException(400, "Unsupported file type")

\* the uploads: text lengths below and above the limit, every set of rendered
\* files, every outcome of the tools
TextLengths == {0, 2500}
PageFiles(n) == {<<k, name>> : k \in 1..n, name \in {"plain", "padded"}}
PptxUploads ==
    {[content_type |-> PptxContentType, pages |-> p, files |-> f, tool |-> t] :
        p \in SeqsUpTo(TextLengths, MaxPages), f \in SUBSET PageFiles(MaxPages),
        t \in {"ok", "exit_nonzero", "not_found", "unreadable"}}
OtherUploads ==
    {[content_type |-> c, pages |-> p, files |-> {}, tool |-> t] :
        c \in {PdfContentType, "image/png"}, p \in SeqsUpTo(TextLengths, MaxPages),
        t \in {"ok", "unreadable"}}
Uploads ==
    {u \in PptxUploads : u.files \subseteq PageFiles(Len(u.pages))} \cup OtherUploads

ConvertInit ==
    /\ request \in Uploads
    /\ response = NoResponse
    /\ NoAssembly
    /\ slide = NoSlide
    /\ stage = "idle"
    /\ last = NoOp

\* lines 122-138
ConvertDocumentEndpoint ==
    /\ response = NoResponse
    /\ response' = ConvertDocument(request)
    /\ UNCHANGED <<request, assembly_vars, slide_vars>>

ConvertNext == ConvertDocumentEndpoint

SpecConvert == ConvertInit /\ [][ConvertNext]_vars

\* ------------------------------------------------ properties of one slide
\* every relationship id the content of a slide refers to
ReferencedRIds(sl) ==
    UNION {sl.shapes[k].rids : k \in 1..Len(sl.shapes)}
      \cup {b.rid : b \in {x \in Range(sl.bgPr) \cup {sl.bg} : x.rid # 0}}

\* shape.text: the paragraphs joined by a line break, a paragraph being its runs
RECURSIVE JoinParagraphs(_, _)
JoinParagraphs(paras, p) ==
    IF p > Len(paras) THEN <<>>
    ELSE (IF p > 1 THEN <<"\n">> ELSE <<>>)
            \o [r \in 1..Len(paras[p]) |-> paras[p][r].text]
            \o JoinParagraphs(paras, p + 1)

ShapeText(sh) == SelectSeq(JoinParagraphs(sh.paras, 1), LAMBDA t : t # "")

SameGeometry(a, b) ==
    a.left = b.left /\ a.top = b.top /\ a.width = b.width /\ a.height = b.height

\* the source shape's image cannot be copied
CopyFails(sh) == sh.kind = "pic" /\ sh.img = 0

\* f maps the shapes of `part`, in order, to shapes of `whole` of the same kind
\* and geometry
Embeds(part, whole) ==
    \E f \in [1..Len(part) -> 1..Len(whole)] :
        /\ \A a, b \in 1..Len(part) : a < b => f[a] < f[b]
        /\ \A a \in 1..Len(part) :
              whole[f[a]].kind = part[a].kind /\ SameGeometry(whole[f[a]], part[a])

\* ------------------------------------------------ properties of the assembly
\* the assembly has entered the loop
Building == pc \in {"loop", "done", "error", "stopped"}

\* step s ran to its end (its log entry was appended)
Completed(s) == s <= Len(process_log)

\* the content lookup of step s selected a slide
ContentResolved(s) == results[s].find.status = "returned" /\ results[s].find.slide # 0

\* step s copied a content slide: "Copy from GTM (as is)" from a PPTX deck
\* with a selected slide
Cloned(s) ==
    /\ s \in 1..Len(results)
    /\ Completed(s)
    /\ structure[s].action = CopyAction
    /\ gtm_file_to_process_type = "pptx"
    /\ ContentResolved(s)

\* the content slide step s selected
SelectedSlide(s) == gtm_slides[PyIndex(results[s].find.index, Len(gtm_slides))]

\* the entry of step s says that no slide was used for it
SaysLeftAsIs(entry) ==
    \E k \in 1..Len(entry.log) :
        entry.log[k].line \in
            {"Action: No suitable slide found in GTM PPTX deck. Template slide was left as is.",
             "Action: AI could not determine a suitable template layout or process content. Template slide was left as is."}

C7_MergeUsesSelectedTemplate ==
    \A s \in 1..Len(results) :
        (/\ structure[s].action = MergeAction
         /\ ContentResolved(s)
         /\ results[s].asked.kind = "ok"
         /\ results[s].asked.index \in 0..(num_template_slides - 1))
        => /\ Completed(s)
           /\ new_prs[s].id = results[s].asked.index + 1
           /\ new_prs[s].shapes =
                 PopulateSlide(TemplateDeckSlide(results[s].asked.index + 1),
                               [title |-> IF "title" \in DOMAIN results[s].asked.content
                                          THEN results[s].asked.content.title
                                          ELSE SlideData(results[s].find.slide).first,
                                body |-> results[s].asked.content.body]).shapes

\* C8: a step of either action whose content lookup returns index -1 runs to
\* its end without an exception, and its log entry says no slide was used.
C8_UnresolvedStepIsLogged ==
    \A s \in 1..Len(results) :
        (results[s].find.status = "returned" /\ results[s].find.index = -1)
        => /\ Completed(s)
           /\ SaysLeftAsIs(process_log[s])

\* C9: a failure of the conversion service or of the ranking call while a step
\* looks for its match ends in a result with no slide, index -1 and a
\* justification; the script is neither stopped nor left by an exception.
C9_LookupFailureIsUnresolved ==
    \A s \in 1..Len(results) :
        (results[s].conv \in {"failed", "bad_record"}
            \/ results[s].ai.kind \in {"api_error", "bad_json"})
        => /\ results[s].find.status = "returned"
           /\ results[s].find.slide = 0
           /\ results[s].find.index = -1
           /\ results[s].find.justification # ""
           /\ pc # "stopped"

\* the log is the record of the first steps of the structure, in order
LogFollowsStructure ==
    \A s \in 1..Len(process_log) :
        /\ s <= Len(structure)
        /\ process_log[s].step = s
        /\ process_log[s].keyword = structure[s].keyword
        /\ process_log[s].action = structure[s].action

C3_NoDanglingReferences == ReferencedRIds(slide) \subseteq DOMAIN slide.rels

\* C4: a clone of a source slide whose shapes all copy without failure has the
\* same number of shapes, in the same order, each with the same geometry, and
\* each text shape with the same text as the source shape.
C4_CloneRoundTrip ==
    (last.op = "clone" /\ \A k \in 1..Len(last.src.shapes) : ~CopyFails(last.src.shapes[k]))
    => /\ Len(slide.shapes) = Len(last.src.shapes)
       /\ \A k \in 1..Len(slide.shapes) :
             /\ slide.shapes[k].kind = last.src.shapes[k].kind
             /\ SameGeometry(slide.shapes[k], last.src.shapes[k])
             /\ last.src.shapes[k].kind = "text"
                   => ShapeText(slide.shapes[k]) = ShapeText(last.src.shapes[k])

\* C5: populate_slide never writes the title and the body into the same shape.
C5_TitleAndBodyDiffer ==
    last.op = "populate"
    => LET roles == PopulateRoles(last.pre, last.content)
       IN  ~(roles.title_shape # 0 /\ roles.title_shape = roles.body_shape)

\* C6: when the image of a source shape cannot be copied, the clone completes
\* and every other shape of the source slide is in the destination slide, in
\* the source's order.
C6_OtherShapesPresent ==
    last.op = "clone"
    => Embeds(SelectSeq(last.src.shapes, LAMBDA sh : ~CopyFails(sh)), slide.shapes)

C6_Witness ==
    /\ last.op = "clone"
    /\ Len(last.src.shapes) = 2
    /\ CopyFails(last.src.shapes[1])
    /\ ~CopyFails(last.src.shapes[2])
    /\ Len(slide.shapes) >= 1

\* the run is over: no step and no finalisation can follow
Ended == pc \in {"done", "error", "stopped"}

\* C11: every assembly run that reaches the build phase ends by returning the
\* saved deck and the per-step log, for every structure of copy and merge
\* steps and every answer of the lookups.
C11_RunReturnsDeckAndLog ==
    Ended => /\ pc = "done"
             /\ output_buffer = new_prs
             /\ Len(process_log) = Len(results)

\* C12: the steps are applied one after another in structure order: while the
\* loop runs, every step before step i has run to its end and no later step
\* has begun; the slide a completed copy step produced sits at the step's
\* position and is not touched by any later step; the slides of the steps not
\* yet begun are still the template's.
C12_StepsAppliedInOrder ==
    Building =>
        /\ Len(results) - Len(process_log) \in {0, 1}
        /\ pc = "loop" => Len(results) = Len(process_log) /\ i = Len(process_log) + 1
        /\ LogFollowsStructure
        /\ \A s \in 1..Len(process_log) :
              Cloned(s) => new_prs[s] = DeepCopySlideContent(TemplateDeckSlide(s), SelectedSlide(s))
        /\ \A s \in (Len(results) + 1)..Len(new_prs) : new_prs[s] = TemplateDeckSlide(s)

C12_Witness ==
    /\ pc = "done"
    /\ Len(process_log) = 2
    /\ Cloned(1)
    /\ Cloned(2)
    /\ SelectedSlide(1) # SelectedSlide(2)
    /\ new_prs[1] # new_prs[2]

\* C13: the deck is saved only after every step that began has run to its
\* end, and it is saved as the loop left it; a run in which a step was
\* interrupted (stop or exception) never has a saved deck.
C13_SavedOnlyAfterCompleteSteps ==
    /\ (pc = "done" \/ output_buffer # <<>>) =>
          /\ pc = "done"
          /\ Len(results) = Len(process_log)
          /\ output_buffer = new_prs
    /\ Building /\ Len(results) # Len(process_log) =>
          /\ pc \in {"error", "stopped"}
          /\ output_buffer = <<>>

C13_Witness ==
    /\ pc = "done"
    /\ output_buffer # <<>>
    /\ \E s \in 1..Len(process_log) : Cloned(s)

\* step s is a "Copy from GTM (as is)" step that has begun
CopyStep(s) == s \in 1..Len(results) /\ structure[s].action = CopyAction

\* step s called analyze_and_map_content, the lookup that is given the
\* template's slides
TemplateQueried(s) == results[s].map # NotMapped

\* a copy step that ran to its end left at its position the template slide or
\* the clone of the content slide it selected: it populated nothing
CopyStepPopulatesNothing(s) ==
    Completed(s) =>
        new_prs[s] = IF Cloned(s)
                     THEN DeepCopySlideContent(TemplateDeckSlide(s), SelectedSlide(s))
                     ELSE TemplateDeckSlide(s)

Queried(s) == results[s].ai # NoAi

\* C21: every query of the lookups is made before the destination deck is
\* first changed: once a step has cloned into or populated a slide of the
\* deck, no later step queries the model.
C21_QueriesBeforeFirstMutation ==
    \A s, t \in 1..Len(results) : s < t /\ Cloned(s) => ~Queried(t)

\* C22: analyze_and_map_content is total: for every record it is given, the
\* {title, body} record of the loop included, and every answer of the model
\* it returns best_template_index, justification and processed_content and
\* never raises; on a failure best_template_index is -1.
C22_MappingIsTotal ==
    \A s \in 1..Len(results) :
        TemplateQueried(s) =>
            /\ ~results[s].map.raised
            /\ {"best_template_index", "justification", "processed_content"}
                  \subseteq DOMAIN results[s].map
            /\ results[s].asked.kind # "ok" => results[s].map.best_template_index = -1

\* C23: find_slide_by_ai returns a slide only when the index the model
\* reported satisfies 0 <= index < number of slides, and then the slide at
\* that index; for a negative index or one past the end it returns no slide.
C23_SlideOnlyForIndexInRange ==
    \A s \in 1..Len(results) :
        LET r == results[s]
            n == Len(gtm_slides)
        IN  /\ r.find.slide # 0 =>
                  /\ r.ai.kind = "index"
                  /\ 0 <= r.ai.index /\ r.ai.index < n
                  /\ r.find.slide = r.ai.index + 1
            /\ Queried(s) /\ r.ai.kind = "index" /\ (r.ai.index < 0 \/ r.ai.index >= n) =>
                  r.find.slide = 0

\* --------------------------------------------- properties of populate_slide
Populated == last.op = "populate"

\* the shapes populate_slide chose on the slide as it found it
Roles == PopulateRoles(last.pre, last.content)

TextShapes(sl) == {k \in 1..Len(sl.shapes) : sl.shapes[k].kind = "text"}

\* C15: placeholder metadata has priority over the heuristics: when a text
\* shape is a title placeholder the title goes to a title placeholder, even
\* when a text shape of the top band comes earlier; when a text shape is a body
\* placeholder the body goes to a body placeholder, before any shape matched
\* by the marker text or the empty-box rule.
C15_MetadataHasPriority ==
    Populated =>
        LET pre == last.pre.shapes
        IN  /\ (\E k \in TextShapes(last.pre) : IsTitlePlaceholder(pre[k])) =>
                  Roles.title_shape # 0 /\ IsTitlePlaceholder(pre[Roles.title_shape])
            /\ (\E k \in TextShapes(last.pre) : IsBodyPlaceholder(pre[k])) =>
                  Roles.body_shape # 0 /\ IsBodyPlaceholder(pre[Roles.body_shape])

\* C16: when no text shape matches a placeholder, position or content rule,
\* the top-most text shape still becomes the title and, with two or more text
\* shapes, another one the body; a slide with two or more text shapes never
\* ends with both roles unresolved.
C16_FallbackResolvesRoles ==
    Populated =>
        LET pre == last.pre.shapes
            text == TextShapes(last.pre)
        IN  /\ (text # {} /\ \A k \in text : ~TitleMatch(pre[k]) /\ ~BodyMatch(pre[k])) =>
                  /\ Roles.title_shape \in text
                  /\ \A k \in text : pre[Roles.title_shape].top <= pre[k].top
                  /\ Cardinality(text) >= 2 =>
                        Roles.body_shape \in text \ {Roles.title_shape}
            /\ Cardinality(text) >= 2 => Roles.title_shape # 0 \/ Roles.body_shape # 0

\* the shape holds one paragraph of one run, with the given text
OnlyNewText(sh, text) ==
    /\ Len(sh.paras) = 1
    /\ Len(sh.paras[1]) = 1
    /\ sh.paras[1][1].text = text

\* C17: after populate_slide each shape that received a role holds exactly one
\* paragraph of exactly one run whose text is the new text; no earlier
\* paragraph and no extra empty paragraph remains.
C17_OneParagraphOneRun ==
    Populated =>
        /\ Roles.title_shape # 0 /\ Roles.title_shape # Roles.body_shape =>
              OnlyNewText(slide.shapes[Roles.title_shape], Get(last.content, "title"))
        /\ Roles.body_shape # 0 =>
              OnlyNewText(slide.shapes[Roles.body_shape], Get(last.content, "body"))

\* C18: a cloned text shape has the paragraphs of its source: as many
\* paragraphs, in each as many runs, each run with the same text, font name,
\* size, bold, italic, underline and colour.
C18_ClonedTextIsSame ==
    last.op = "clone" /\ (\A k \in 1..Len(last.src.shapes) : last.src.shapes[k].kind = "text") =>
        /\ Len(slide.shapes) = Len(last.src.shapes)
        /\ \A k \in 1..Len(last.src.shapes) : slide.shapes[k].paras = last.src.shapes[k].paras

\* C19: when populate_slide finds no shape for the title or for the body it
\* ends without error, the shapes it chose for no role are as they were, and
\* the step's log holds a warning for the role not populated: it does not
\* only report the merge as done.
C19_PartialPopulationIsLogged ==
    Populated /\ (Roles.title_shape = 0 \/ Roles.body_shape = 0) =>
        /\ Len(slide.shapes) = Len(last.pre.shapes)
        /\ \A k \in 1..Len(slide.shapes) :
              k \notin {Roles.title_shape, Roles.body_shape} => slide.shapes[k] = last.pre.shapes[k]
        /\ \E k \in 1..Len(last.log) : last.log[k] # MergedLine

\* C24: populate_slide is idempotent: a second call on the same slide with the
\* same content leaves the slide as the first call left it; it writes to the
\* same shapes and changes no other shape.
C24_PopulateIdempotent ==
    Populated =>
        LET again == PopulateRoles(slide, last.content)
        IN  /\ again.shapes = slide.shapes
            /\ again.title_shape = Roles.title_shape
            /\ again.body_shape = Roles.body_shape

\* ----------------------------------------- properties of the conversion
\* the upload is a PPTX or a PDF
Supported == request.content_type \in {PptxContentType, PdfContentType}

Answered == response # NoResponse

\* one record per slide or page, in document order, numbered from 0; the
\* record of a slide without a rendered file has empty image data
OneRecordPerPage ==
    /\ response.status_code = 200
    /\ Len(response.slides) = Len(request.pages)
    /\ \A k \in 1..Len(request.pages) :
          /\ response.slides[k].slide_index = k - 1
          /\ response.slides[k].text = Truncated(request.pages[k])
          /\ response.slides[k].image_data = <<>>
                <=> /\ request.content_type = PptxContentType
                    /\ \A name \in {"plain", "padded"} : <<k, name>> \notin request.files

\* C14 as stated: for a PPTX or a PDF the conversion service returns exactly
\* one record per slide or page, in document order, the record at position i
\* having slide_index = i, also when a slide's rendered image is missing; for
\* any other media type it returns an error and no records.
C14_OneRecordPerPage ==
    Answered =>
        /\ Supported => OneRecordPerPage
        /\ ~Supported => response.status_code = 400 /\ response.slides = <<>>

\* C14 amended: that holds when the renderer and the parser succeed; when
\* unoconv fails or is missing, or the document cannot be opened, the service
\* answers a PPTX or a PDF with status 500 and no records.
C14_OneRecordPerPageWhenConverted ==
    Answered =>
        /\ Supported /\ request.tool = "ok" => OneRecordPerPage
        /\ Supported /\ request.tool # "ok" =>
              response.status_code = 500 /\ response.slides = <<>>
        /\ ~Supported => response.status_code = 400 /\ response.slides = <<>>

C14_Witness ==
    /\ Answered
    /\ request.content_type = PptxContentType
    /\ request.tool = "ok"
    /\ Len(request.pages) = 3
    /\ request.files = {<<1, "plain">>, <<3, "padded">>}
    /\ response.slides[2].image_data = <<>>
    /\ response.slides[3].slide_index = 2

====
